---- MODULE Spec2Model ----
(***************************************************************************)
(* webdriver_kaifuku: browser session factories (direct and wharf          *)
(* container-backed) and the BrowserManager lifecycle.                     *)
(*                                                                         *)
(* Every public method is one action.  The outcomes of the external        *)
(* collaborators (the selenium client constructor, the session's           *)
(* current_url / maximize_window / quit, the wharf's checkout, the cleanup *)
(* callbacks) are inputs of the action.  Exceptions are strings naming the *)
(* Python class; "none" is a normal return.  Handle 0 is Python's None.    *)
(* Each action leaves in `last` what the call did: the ordered calls it    *)
(* made on its collaborators, the exception it raised, the value returned. *)
(***************************************************************************)
EXTENDS Integers, Sequences, FiniteSets

\* ---------------------------------------------------------------- bounds
MaxHandles == 2      \* sessions the client constructor may create
MaxCleanups == 2     \* callbacks attached to one handle
MaxCheckins == 2     \* wharf.checkin() calls after which the wharf factory rests
MaxAttempts == 3     \* largest max_attempts a caller passes to tries

\* ------------------------------------------------------ program constants
WHARF_OUTER_RETRIES == 2
BASE_CREATE_TRIES == 2
ECONNREFUSED == 111

Handles == 1..MaxHandles
Callbacks == 1..MaxCleanups
None == 0

\* ------------------------------------------------------------ exceptions
\* URLError carries e.reason: an OSError with errno 111, an OSError with
\* another errno, or a plain string (which has no errno attribute).
URLErrors == {"URLError111", "URLErrorOther", "URLErrorStr"}
WebDriverExceptions == {"WebDriverException", "UnexpectedAlertPresentException"}

IsInstance(exc, classes) ==
    \/ exc \in classes
    \/ "URLError" \in classes /\ exc \in URLErrors
    \/ "WebDriverException" \in classes /\ exc \in WebDriverExceptions
    \/ "Exception" \in classes /\ exc # "none"

BROWSER_ERRORS == {"URLError", "WebDriverException"}

\* e.reason.errno of a URLError; -1 stands for "reason has no errno".
ReasonErrno(exc) ==
    CASE exc = "URLError111" -> ECONNREFUSED
      [] exc = "URLErrorOther" -> 113
      [] OTHER -> -1

\* A call made during a method: e names the call, a is the handle or the
\* callback it is made on (0 when it has none), x the exception it raised.
Ev(e, a, x) == [e |-> e, a |-> a, x |-> x]

Count(evs, e) == Cardinality({i \in 1..Len(evs) : evs[i].e = e})
CountOk(evs, e) == Cardinality({i \in 1..Len(evs) : evs[i].e = e /\ evs[i].x = "none"})

\* --------------------------------------------------------- retry helper
\* tries(max_attempts, retryable_errors, operation): `excs` holds the
\* exception each invocation would raise; the value is the index of the
\* invocation whose outcome tries returns or raises.
\* tries that gives up one attempt early.
RECURSIVE triesFrom_one_short(_, _, _, _)
triesFrom_one_short(max_attempts, retryable, excs, i) ==
    IF excs[i] = "none" THEN i
    ELSE IF ~IsInstance(excs[i], retryable) THEN i
    ELSE IF i >= max_attempts - 1 THEN i
    ELSE triesFrom_one_short(max_attempts, retryable, excs, i + 1)

\* tries that retries whatever the operation raises.
RECURSIVE triesFrom_retry_any(_, _, _, _)
triesFrom_retry_any(max_attempts, retryable, excs, i) ==
    IF excs[i] = "none" THEN i
    ELSE IF i >= max_attempts THEN i
    ELSE triesFrom_retry_any(max_attempts, retryable, excs, i + 1)

RECURSIVE triesFrom(_, _, _, _)
triesFrom(max_attempts, retryable, excs, i) ==
    IF excs[i] = "none" THEN i
    ELSE IF ~IsInstance(excs[i], retryable) THEN i
    ELSE IF i >= max_attempts THEN i
    ELSE triesFrom(max_attempts, retryable, excs, i + 1)

tries(max_attempts, retryable, excs) == triesFrom(max_attempts, retryable, excs, 1)

\* A call of tries by itself: the operation's i-th invocation raises excs[i]
\* or, when excs[i] is "none", returns the value i.  Value: [ev, exc, ret].
tries_call(max_attempts, retryable, excs) ==
    LET k == tries(max_attempts, retryable, excs)
    IN  [ev |-> [i \in 1..k |-> Ev("invoke", i, excs[i])],
         exc |-> excs[k],
         ret |-> IF excs[k] = "none" THEN k ELSE None]

RECURSIVE Concat(_, _)
Concat(seqs, k) == IF k = 0 THEN <<>> ELSE Concat(seqs, k - 1) \o seqs[k]

\* ---------------------------------------------------------------- wharf
\* checkout() takes the lease when it succeeds; checkin() releases it and
\* is safe to call when no lease is held.
RECURSIVE LeaseAfter(_, _, _)
LeaseAfter(held, evs, i) ==
    IF i > Len(evs) THEN held
    ELSE LeaseAfter(CASE evs[i].e = "checkout" /\ evs[i].x = "none" -> TRUE
                      [] evs[i].e = "checkin" -> FALSE
                      [] OTHER -> held, evs, i + 1)

\* ------------------------------------------------------- BrowserFactory
ConsOutcomes == {"none", "WebDriverException", "URLError111", "URLErrorOther",
                 "URLErrorStr", "Exception"}
MaximizeOutcomes == {"none", "WebDriverException"}
QuitOutcomes == {"none", "WebDriverException"}

\* One invocation of webdriver_class(**kwargs) inside tries.
Construct(out, made) ==
    IF out = "none"
    THEN [ev |-> <<Ev("construct", made + 1, "none")>>, exc |-> "none"]
    ELSE [ev |-> <<Ev("construct", None, out)>>, exc |-> out]

\* The except URLError clause of BrowserFactory.create.
ClassifyURLError(exc) ==
    IF ReasonErrno(exc) = -1 THEN "AttributeError"
    ELSE IF ReasonErrno(exc) = ECONNREFUSED THEN "RuntimeError"
    ELSE exc

\* create() that invokes the client constructor once, without tries.
BrowserFactory_create_no_retry(nargs, cons, maxi, made) ==
    IF nargs # 0
    THEN [ev |-> <<>>, exc |-> "TypeError", ret |-> None, made |-> made]
    ELSE
      LET evs == Construct(cons[1], made).ev
      IN  IF cons[1] = "none"
          THEN IF maxi = "none"
               THEN [ev |-> evs \o <<Ev("maximize", made + 1, "none")>>, exc |-> "none",
                     ret |-> made + 1, made |-> made + 1]
               ELSE [ev |-> evs \o <<Ev("maximize", made + 1, maxi)>>, exc |-> maxi,
                     ret |-> None, made |-> made + 1]
          ELSE IF IsInstance(cons[1], {"URLError"})
               THEN [ev |-> evs, exc |-> ClassifyURLError(cons[1]), ret |-> None,
                     made |-> made]
               ELSE [ev |-> evs, exc |-> cons[1], ret |-> None, made |-> made]

\* BrowserFactory.create(self) called with `nargs` further positional
\* arguments.  cons[i] is the outcome of the i-th constructor invocation,
\* maxi the outcome of maximize_window(), made the sessions constructed so
\* far.  Value: [ev, exc, ret, made].
BrowserFactory_create(nargs, cons, maxi, made) ==
    IF nargs # 0
    THEN [ev |-> <<>>, exc |-> "TypeError", ret |-> None, made |-> made]
    ELSE
      LET k == tries(BASE_CREATE_TRIES, {"WebDriverException"}, cons)
          invs == [i \in 1..k |-> Construct(cons[i], made).ev]
          evs == Concat(invs, k)
      IN  IF cons[k] = "none"
          THEN IF maxi = "none"
               THEN [ev |-> evs \o <<Ev("maximize", made + 1, "none")>>, exc |-> "none",
                     ret |-> made + 1, made |-> made + 1]
               ELSE [ev |-> evs \o <<Ev("maximize", made + 1, maxi)>>, exc |-> maxi,
                     ret |-> None, made |-> made + 1]
          ELSE IF IsInstance(cons[k], {"URLError"})
               THEN [ev |-> evs, exc |-> ClassifyURLError(cons[k]), ret |-> None,
                     made |-> made]
               ELSE [ev |-> evs, exc |-> cons[k], ret |-> None, made |-> made]

\* BrowserFactory.close(self, browser): qout is the outcome of browser.quit().
BrowserFactory_close(b, qout) ==
    IF b # None
    THEN [ev |-> <<Ev("session_quit", b, qout)>>, exc |-> qout, ret |-> None]
    ELSE [ev |-> <<>>, exc |-> "none", ret |-> None]

\* --------------------------------------------------------- WharfFactory
CheckoutOutcomes == {"none", "URLErrorOther", "WebDriverException", "Exception"}

\* inner() with the lease released only in the except URLError clause.
WharfHandler_only_URLError(exc) ==
    IF IsInstance(exc, {"URLError"}) THEN <<Ev("checkin", 0, "none")>> ELSE <<>>

\* The two except clauses of inner(): what runs before the re-raise.
WharfHandler(exc) ==
    IF IsInstance(exc, {"URLError"}) THEN <<Ev("checkin", 0, "none")>>
    ELSE IF IsInstance(exc, {"Exception"}) THEN <<Ev("checkin", 0, "none")>>
    ELSE <<>>

\* One attempt, inner(): co is the outcome of wharf.checkout(); the base
\* create is called with one positional argument, url_key.
inner(co, cons, maxi, made) ==
    IF co # "none"
    THEN [ev |-> <<Ev("checkout", 0, co)>> \o WharfHandler(co) \o <<Ev("raise", 0, co)>>,
          exc |-> co, ret |-> None, made |-> made]
    ELSE LET base == BrowserFactory_create(1, cons, maxi, made)
         IN  IF base.exc = "none"
             THEN [ev |-> <<Ev("checkout", 0, "none")>> \o base.ev, exc |-> "none",
                   ret |-> base.ret, made |-> base.made]
             ELSE [ev |-> <<Ev("checkout", 0, "none")>> \o base.ev
                            \o WharfHandler(base.exc) \o <<Ev("raise", 0, base.exc)>>,
                   exc |-> base.exc, ret |-> None, made |-> base.made]

\* The outcomes of attempts 1..n, each starting from what the one before left.
RECURSIVE InnerResults(_, _, _, _, _)
InnerResults(n, co, cons, maxi, made) ==
    IF n = 0 THEN <<>>
    ELSE LET prev == InnerResults(n - 1, co, cons, maxi, made)
             m == IF n = 1 THEN made ELSE prev[n - 1].made
         IN  Append(prev, inner(co[n], cons, maxi, m))

\* create() whose outer tries allows one attempt more.
WharfFactory_create_one_more(nargs, co, cons, maxi, made) ==
    IF nargs # 1
    THEN [ev |-> <<>>, exc |-> "TypeError", ret |-> None, made |-> made]
    ELSE LET n == WHARF_OUTER_RETRIES + 1
             co3 == [i \in 1..n |-> co[IF i > WHARF_OUTER_RETRIES
                                        THEN WHARF_OUTER_RETRIES ELSE i]]
             res == InnerResults(n, co3, cons, maxi, made)
             k == tries(n, BROWSER_ERRORS, [i \in 1..n |-> res[i].exc])
         IN  [ev |-> Concat([i \in 1..k |-> res[i].ev], k), exc |-> res[k].exc,
              ret |-> res[k].ret, made |-> res[k].made]

\* WharfFactory.create(self, url_key) called with `nargs` positional arguments.
WharfFactory_create(nargs, co, cons, maxi, made) ==
    IF nargs # 1
    THEN [ev |-> <<>>, exc |-> "TypeError", ret |-> None, made |-> made]
    ELSE LET res == InnerResults(WHARF_OUTER_RETRIES, co, cons, maxi, made)
             k == tries(WHARF_OUTER_RETRIES, BROWSER_ERRORS,
                        [i \in 1..WHARF_OUTER_RETRIES |-> res[i].exc])
         IN  [ev |-> Concat([i \in 1..k |-> res[i].ev], k), exc |-> res[k].exc,
              ret |-> res[k].ret, made |-> res[k].made]

\* close() with the checkin after the base close instead of in a finally.
WharfFactory_close_no_finally(b, qout) ==
    LET base == BrowserFactory_close(b, qout)
    IN  [ev |-> base.ev \o (IF base.exc = "none" THEN <<Ev("checkin", 0, "none")>>
                                                ELSE <<>>),
         exc |-> base.exc, ret |-> None]

\* WharfFactory.close(self, browser): try base close, finally checkin.
WharfFactory_close(b, qout) ==
    LET base == BrowserFactory_close(b, qout)
    IN  [ev |-> base.ev \o <<Ev("checkin", 0, "none")>>, exc |-> base.exc, ret |-> None]

\* ------------------------------------------------------- BrowserManager
FactoryKinds == {"BrowserFactory", "WharfFactory"}
ProbeOutcomes == {"none", "UnexpectedAlertPresentException", "WebDriverException"}
CallbackOutcomes == {"none", "Exception"}

\* The attributes an instance has: the two attr.ib() fields of the class.
ManagerAttributes == {"browser_factory", "browser"}

\* Evaluating self.<name> on the manager.
GetAttr(name) == IF name \in ManagerAttributes THEN "none" ELSE "AttributeError"

\* self.factory.create() / self.factory.close(browser) once self.factory
\* resolved.  create() passes no url_key, which WharfFactory.create requires.
Factory_create(kind, cons, maxi, made) ==
    IF kind = "WharfFactory"
    THEN [ev |-> <<>>, exc |-> "TypeError", ret |-> None, made |-> made]
    ELSE BrowserFactory_create(0, cons, maxi, made)

Factory_close(kind, b, qout) ==
    IF kind = "WharfFactory" THEN WharfFactory_close(b, qout)
    ELSE BrowserFactory_close(b, qout)

\* _is_alive without the except UnexpectedAlertPresentException clause.
_is_alive_alert_dead(b, probe) ==
    IF b = None THEN FALSE
    ELSE IF probe = "none" THEN TRUE
    ELSE IF IsInstance(probe, {"Exception"}) THEN FALSE
    ELSE TRUE

\* _is_alive: reading self.browser.current_url with outcome `probe`.
_is_alive(b, probe) ==
    IF b = None THEN FALSE                       \* AttributeError on None
    ELSE IF probe = "none" THEN TRUE
    ELSE IF IsInstance(probe, {"UnexpectedAlertPresentException"}) THEN TRUE
    ELSE IF IsInstance(probe, {"Exception"}) THEN FALSE
    ELSE TRUE

\* _consume_cleanups that calls the callbacks and leaves them on the list.
RECURSIVE ConsumeList_no_pop(_, _)
ConsumeList_no_pop(cl, cbOut) ==
    IF cl = <<>> THEN [ev |-> <<>>, exc |-> "none", rest |-> <<>>]
    ELSE LET c == cl[Len(cl)]
             r == SubSeq(cl, 1, Len(cl) - 1)
         IN  IF cbOut[c] # "none"
             THEN [ev |-> <<Ev("callback", c, cbOut[c])>>, exc |-> cbOut[c], rest |-> cl]
             ELSE LET t == ConsumeList_no_pop(r, cbOut)
                  IN  [ev |-> <<Ev("callback", c, "none")>> \o t.ev, exc |-> t.exc,
                       rest |-> cl]

\* _consume_cleanups on the list cl: pop from the end and call, until the
\* list is empty or a callback raises.  Value: [ev, exc, rest].
RECURSIVE ConsumeList(_, _)
ConsumeList(cl, cbOut) ==
    IF cl = <<>> THEN [ev |-> <<>>, exc |-> "none", rest |-> <<>>]
    ELSE LET c == cl[Len(cl)]
             r == SubSeq(cl, 1, Len(cl) - 1)
         IN  IF cbOut[c] # "none"
             THEN [ev |-> <<Ev("callback", c, cbOut[c])>>, exc |-> cbOut[c], rest |-> r]
             ELSE LET t == ConsumeList(r, cbOut)
                  IN  [ev |-> <<Ev("callback", c, "none")>> \o t.ev, exc |-> t.exc,
                       rest |-> t.rest]

_consume_cleanups(b, cleanups, cbOut) ==
    IF b = None THEN [ev |-> <<>>, exc |-> "none", rest |-> <<>>]
    ELSE ConsumeList(cleanups[b], cbOut)

\* The statement self.factory.close(self.browser): [ev, exc].
CloseStatement(kind, b, qout) ==
    IF GetAttr("factory") # "none"
    THEN [ev |-> <<Ev("getattr_factory", 0, GetAttr("factory"))>>,
          exc |-> GetAttr("factory"), ret |-> None]
    ELSE Factory_close(kind, b, qout)

\* quit() whose except clause re-raises.
QuitExcept_reraise(exc) == exc

\* The except clause of quit(): the exception that leaves the try statement.
QuitExcept(exc) == IF IsInstance(exc, {"Exception"}) THEN "none" ELSE exc

\* quit().  Value: [ev, exc, ret, browser, cleanups, made].
quit(kind, b, cleanups, made, cbOut, qout) ==
    LET cc == _consume_cleanups(b, cleanups, cbOut)
        cls == IF b = None THEN cleanups ELSE [cleanups EXCEPT ![b] = cc.rest]
    IN  IF cc.exc # "none"
        THEN [ev |-> cc.ev, exc |-> cc.exc, ret |-> None, browser |-> b,
              cleanups |-> cls, made |-> made]
        ELSE LET st == CloseStatement(kind, b, qout)
                 logged == IF st.exc # "none" /\ QuitExcept(st.exc) = "none"
                           THEN <<Ev("log_shutdown_error", b, st.exc)>> ELSE <<>>
             IN  [ev |-> cc.ev \o st.ev \o logged, exc |-> QuitExcept(st.exc),
                  ret |-> None, browser |-> None, cleanups |-> cls, made |-> made]

\* open_fresh() without its assert.
open_fresh_no_assert(kind, b, cleanups, made, cons, maxi) ==
    IF GetAttr("factory") # "none"
    THEN [ev |-> <<Ev("getattr_factory", 0, GetAttr("factory"))>>,
          exc |-> GetAttr("factory"), ret |-> None, browser |-> b,
          cleanups |-> cleanups, made |-> made]
    ELSE LET fc == Factory_create(kind, cons, maxi, made)
         IN  IF fc.exc = "none"
             THEN [ev |-> fc.ev, exc |-> "none", ret |-> fc.ret, browser |-> fc.ret,
                   cleanups |-> cleanups, made |-> fc.made]
             ELSE [ev |-> fc.ev, exc |-> fc.exc, ret |-> None, browser |-> b,
                   cleanups |-> cleanups, made |-> fc.made]

\* open_fresh().
open_fresh(kind, b, cleanups, made, cons, maxi) ==
    IF b # None
    THEN [ev |-> <<>>, exc |-> "AssertionError", ret |-> None, browser |-> b,
          cleanups |-> cleanups, made |-> made]
    ELSE IF GetAttr("factory") # "none"
    THEN [ev |-> <<Ev("getattr_factory", 0, GetAttr("factory"))>>,
          exc |-> GetAttr("factory"), ret |-> None, browser |-> b, cleanups |-> cleanups, made |-> made]
    ELSE LET fc == Factory_create(kind, cons, maxi, made)
         IN  IF fc.exc = "none"
             THEN [ev |-> fc.ev, exc |-> "none", ret |-> fc.ret, browser |-> fc.ret,
                   cleanups |-> cleanups, made |-> fc.made]
             ELSE [ev |-> fc.ev, exc |-> fc.exc, ret |-> None, browser |-> b,
                   cleanups |-> cleanups, made |-> fc.made]

\* start().
start(kind, b, cleanups, made, cbOut, qout, cons, maxi) ==
    IF b # None
    THEN LET q == quit(kind, b, cleanups, made, cbOut, qout)
         IN  IF q.exc # "none" THEN q
             ELSE LET o == open_fresh(kind, q.browser, q.cleanups, q.made, cons, maxi)
                  IN  [o EXCEPT !.ev = q.ev \o o.ev]
    ELSE open_fresh(kind, b, cleanups, made, cons, maxi)

\* ensure_open().
ensure_open(kind, b, cleanups, made, probe, cbOut, qout, cons, maxi) ==
    LET pev == IF b = None THEN <<>> ELSE <<Ev("probe", b, probe)>>
    IN  IF _is_alive(b, probe)
        THEN [ev |-> pev, exc |-> "none", ret |-> b, browser |-> b,
              cleanups |-> cleanups, made |-> made]
        ELSE LET s == start(kind, b, cleanups, made, cbOut, qout, cons, maxi)
             IN  [s EXCEPT !.ev = pev \o s.ev]

\* add_cleanup(callback).
add_cleanup(b, cleanups, made, c) ==
    IF b = None
    THEN [ev |-> <<>>, exc |-> "AssertionError", ret |-> None, browser |-> b,
          cleanups |-> cleanups, made |-> made]
    ELSE [ev |-> <<>>, exc |-> "none", ret |-> None, browser |-> b,
          cleanups |-> [cleanups EXCEPT ![b] = Append(@, c)], made |-> made]

\* ------------------------------------------------------------- state
VARIABLES
    browser_factory,  \* BrowserManager.browser_factory: the factory's class
    browser,          \* BrowserManager.browser: the owned handle or None
    cleanups,         \* per handle, the __cleanup list attached to it
    made,             \* sessions the client constructor has created
    returned,         \* the handles some call has returned to its caller
    quitCalls,        \* per handle, the calls of its quit()
    leaseHeld,        \* the wharf holds a checked-out container
    checkoutOk,       \* successful wharf.checkout() calls
    checkinCalls,     \* wharf.checkin() calls
    last              \* the last call: [op, arg, inp, pre, ev, exc, ret]

vars == <<browser_factory, browser, cleanups, made, returned, quitCalls, leaseHeld,
          checkoutOk, checkinCalls, last>>

\* The record of a call: inp holds the inputs of the call that its ev may
\* not show (<<>> when there are none).
CallWith(op, arg, inp, r) ==
    [op |-> op, arg |-> arg, inp |-> inp, pre |-> browser, ev |-> r.ev, exc |-> r.exc,
     ret |-> r.ret]

Call(op, arg, r) == CallWith(op, arg, <<>>, r)

\* What the calls in evs do to the collaborators.
Collaborators(evs) ==
    /\ leaseHeld' = LeaseAfter(leaseHeld, evs, 1)
    /\ checkoutOk' = checkoutOk + CountOk(evs, "checkout")
    /\ checkinCalls' = checkinCalls + Count(evs, "checkin")
    /\ quitCalls' = [h \in Handles |->
           quitCalls[h] + Cardinality({i \in 1..Len(evs) :
                                          evs[i].e = "session_quit" /\ evs[i].a = h})]

\* What a call with value r does to the collaborators and to its caller.
Effects(r) ==
    /\ Collaborators(r.ev)
    /\ returned' = IF r.ret = None THEN returned ELSE returned \cup {r.ret}

Init ==
    /\ browser_factory \in FactoryKinds
    /\ browser = None
    /\ cleanups = [h \in Handles |-> <<>>]
    /\ made = 0
    /\ returned = {}
    /\ quitCalls = [h \in Handles |-> 0]
    /\ leaseHeld = FALSE
    /\ checkoutOk = 0
    /\ checkinCalls = 0
    /\ last = [op |-> "init", arg |-> 0, inp |-> <<>>, pre |-> None, ev |-> <<>>,
               exc |-> "none", ret |-> None]

\* An outcome for each constructor invocation tries can make; the outcome
\* of an invocation that tries does not make is never read and is left at
\* "none".
ConsInputs == {c \in [1..BASE_CREATE_TRIES -> ConsOutcomes] :
                 \A i \in 1..BASE_CREATE_TRIES :
                    i > tries(BASE_CREATE_TRIES, {"WebDriverException"}, c)
                      => c[i] = "none"}
\* maximize_window() is called only when tries returned a session: the
\* invocation tries ends at is the one that succeeded.
Constructed(cons) == cons[tries(BASE_CREATE_TRIES, {"WebDriverException"}, cons)] = "none"
CheckoutInputs == [1..WHARF_OUTER_RETRIES -> CheckoutOutcomes]
\* An outcome for each callback attached to the handle b; the others are
\* not attached, cannot be called, and are left at "none".
CallbackInputs(b) ==
    {o \in [Callbacks -> CallbackOutcomes] :
       \A c \in Callbacks :
          (IF b = None THEN TRUE ELSE c > Len(cleanups[b])) => o[c] = "none"}

\* Outcomes are drawn only for collaborator calls a method can reach: the
\* manager reaches its factory only when self.factory resolves, and the
\* wharf factory reaches maximize_window() only when the base create
\* accepts the url_key argument it is given.  WharfCreate draws the client
\* constructor's outcomes all the same and records them: they say what the
\* remote endpoint would answer during that call.
NoCall(S, ok) == IF ok THEN S ELSE {CHOOSE x \in S : TRUE}
FactoryReached == GetAttr("factory") = "none"
BaseReached == BrowserFactory_create(1, [i \in 1..BASE_CREATE_TRIES |-> "none"],
                                     "none", 0).exc # "TypeError"

\* The handles a caller may pass to close(): None, or a session it got from
\* BrowserFactory.create() and has not closed yet.
Closable == {None} \cup {h \in returned : quitCalls[h] = 0}

\* ---------------------------------------------- calls on the factories
DirectCreate ==
    /\ made < MaxHandles
    /\ \E cons \in ConsInputs :
       \E maxi \in NoCall(MaximizeOutcomes, Constructed(cons)) :
         LET r == BrowserFactory_create(0, cons, maxi, made)
         IN  /\ made' = r.made
             /\ last' = Call("BrowserFactory.create", 0, r)
             /\ Effects(r)
    /\ UNCHANGED <<browser_factory, browser, cleanups>>

DirectClose ==
    \E b \in Closable, qout \in QuitOutcomes :
      /\ LET r == BrowserFactory_close(b, qout)
         IN  /\ last' = Call("BrowserFactory.close", b, r)
             /\ Effects(r)
      /\ UNCHANGED <<browser_factory, browser, cleanups, made>>

WharfCreate ==
    /\ checkinCalls < MaxCheckins
    /\ made < MaxHandles
    /\ \E nargs \in {0, 1}, co \in CheckoutInputs,
          cons \in ConsInputs,
          maxi \in NoCall(MaximizeOutcomes, BaseReached) :
         LET r == WharfFactory_create(nargs, co, cons, maxi, made)
         IN  /\ made' = r.made
             /\ last' = CallWith("WharfFactory.create", nargs, cons, r)
             /\ Effects(r)
    /\ UNCHANGED <<browser_factory, browser, cleanups>>

WharfClose ==
    /\ checkinCalls < MaxCheckins
    /\ \E b \in Closable, qout \in QuitOutcomes :
         /\ LET r == WharfFactory_close(b, qout)
            IN  /\ last' = Call("WharfFactory.close", b, r)
                /\ Effects(r)
    /\ UNCHANGED <<browser_factory, browser, cleanups, made>>

\* ------------------------------------------------ calls on the manager
\* The state a manager call leaves, from the value of its operator.
Manager(op, arg, r) ==
    /\ browser' = r.browser
    /\ cleanups' = r.cleanups
    /\ made' = r.made
    /\ last' = Call(op, arg, r)
    /\ Effects(r)
    /\ UNCHANGED <<browser_factory>>

EnsureOpen ==
    /\ \E probe \in ProbeOutcomes, cbOut \in CallbackInputs(browser),
          qout \in NoCall(QuitOutcomes, FactoryReached),
          cons \in NoCall(ConsInputs, FactoryReached),
          maxi \in NoCall(MaximizeOutcomes, FactoryReached) :
         Manager("ensure_open", 0,
                 ensure_open(browser_factory, browser, cleanups, made, probe, cbOut,
                             qout, cons, maxi))

Start ==
    /\ \E cbOut \in CallbackInputs(browser),
          qout \in NoCall(QuitOutcomes, FactoryReached),
          cons \in NoCall(ConsInputs, FactoryReached),
          maxi \in NoCall(MaximizeOutcomes, FactoryReached) :
         Manager("start", 0,
                 start(browser_factory, browser, cleanups, made, cbOut, qout, cons, maxi))

OpenFresh ==
    \E cons \in NoCall(ConsInputs, FactoryReached),
       maxi \in NoCall(MaximizeOutcomes, FactoryReached) :
      Manager("open_fresh", 0,
              open_fresh(browser_factory, browser, cleanups, made, cons, maxi))

Quit ==
    /\ \E cbOut \in CallbackInputs(browser), qout \in NoCall(QuitOutcomes, FactoryReached) :
         Manager("quit", 0, quit(browser_factory, browser, cleanups, made, cbOut, qout))

\* The caller passes a new callback each time: the one attached as the
\* n-th of a handle's list is callback n.
AddCleanup ==
    LET c == IF browser = None THEN 1 ELSE Len(cleanups[browser]) + 1
    IN  /\ c \in Callbacks
        /\ Manager("add_cleanup", c, add_cleanup(browser, cleanups, made, c))

\* The caller stores a session it created with BrowserFactory.create() in
\* the manager's public attribute `browser`.
AssignBrowser ==
    /\ browser = None
    /\ \E h \in returned :
         /\ browser' = h
         /\ last' = [op |-> "assign_browser", arg |-> h, inp |-> <<>>, pre |-> browser,
                     ev |-> <<>>, exc |-> "none", ret |-> None]
    /\ UNCHANGED <<browser_factory, cleanups, made, returned, quitCalls, leaseHeld,
                   checkoutOk,
                   checkinCalls>>

Next ==
    \/ DirectCreate
    \/ DirectClose
    \/ WharfCreate
    \/ WharfClose
    \/ EnsureOpen
    \/ Start
    \/ OpenFresh
    \/ Quit
    \/ AddCleanup
    \/ AssignBrowser

Spec == Init /\ [][Next]_vars

\* ------------------------------------------------- the retry helper alone
\* tries called by itself, with each retryable set the package passes it.
RetryableSets == {{"WebDriverException"}, BROWSER_ERRORS}
TriesOutcomes == {"none", "WebDriverException", "URLErrorOther", "Exception"}

TriesCall ==
    /\ \E max_attempts \in 1..MaxAttempts, retryable \in RetryableSets :
       \E excs \in [1..max_attempts -> TriesOutcomes] :
         last' = CallWith("tries", max_attempts,
                          [retryable |-> retryable, excs |-> excs],
                          tries_call(max_attempts, retryable, excs))
    /\ UNCHANGED <<browser_factory, browser, cleanups, made, returned, quitCalls,
                   leaseHeld, checkoutOk, checkinCalls>>

TriesNext == TriesCall

TriesSpec == Init /\ [][TriesNext]_vars

TypeOK ==
    /\ browser \in {None} \cup Handles
    /\ made \in 0..MaxHandles
    /\ leaseHeld \in BOOLEAN

\* ================================================================ claims
Evs == last.ev
Idx == 1..Len(last.ev)

\* The calls on the collaborators (client, session, wharf, callbacks).
CollaboratorCalls == {"checkout", "checkin", "construct", "maximize", "session_quit",
                      "callback", "probe"}

\* No collaborator raised during the last call.
Healthy == \A i \in Idx : Evs[i].e \in CollaboratorCalls => Evs[i].x = "none"

\* C1: in WharfFactory.create, every attempt whose checkout() succeeded and
\* that then failed calls checkin() before its error leaves inner(), and no
\* checkout() is made while the lease of an earlier attempt is still held.
C1_checkin_before_error ==
    last.op = "WharfFactory.create" =>
      /\ \A i \in Idx, j \in Idx :
           ( /\ i < j
             /\ Evs[i].e = "checkout" /\ Evs[i].x = "none"
             /\ Evs[j].e = "raise"
             /\ \A m \in (i + 1)..(j - 1) : Evs[m].e # "checkout" )
           => \E k \in (i + 1)..(j - 1) : Evs[k].e = "checkin"
      /\ \A i \in Idx, j \in Idx :
           ( /\ i < j
             /\ Evs[i].e = "checkout" /\ Evs[i].x = "none"
             /\ Evs[j].e = "checkout" )
           => \E k \in (i + 1)..(j - 1) : Evs[k].e = "checkin"
      /\ (last.exc # "none" => ~leaseHeld)

\* A create() that retried after a failed checkout, then checked out a
\* container, failed, and released it before raising.
C1_witness ==
    /\ last.op = "WharfFactory.create"
    /\ last.exc # "none"
    /\ Count(Evs, "checkout") = 2
    /\ CountOk(Evs, "checkout") = 1
    /\ Count(Evs, "checkin") = 2
    /\ ~leaseHeld

\* C2 (as claimed): checkin() is called exactly once per successful
\* checkout(): never more checkin() calls than successful checkout() calls,
\* and the two counts equal once no session is live.
C2_exactly_once_per_checkout ==
    /\ checkinCalls <= checkoutOk
    /\ (browser = None => checkinCalls = checkoutOk)

\* C2 (amended): every successful checkout() is followed by a checkin():
\* between calls no lease is held and there are at least as many checkin()
\* calls as successful checkout() calls.
C2_every_checkout_released ==
    /\ ~leaseHeld
    /\ checkinCalls >= checkoutOk

\* Containers were checked out, and checkin() was called more often than that.
C2_witness ==
    /\ checkoutOk >= 1
    /\ checkinCalls > checkoutOk
    /\ ~leaseHeld

\* C3: WharfFactory.close(handle) calls the base close first (the session's
\* quit(), for a handle that is not None), then checkin() exactly once, as
\* its last call, and raises what the base close raised.
C3_close_checkin_once ==
    last.op = "WharfFactory.close" =>
      /\ Count(Evs, "checkin") = 1
      /\ Evs[Len(Evs)].e = "checkin"
      /\ (last.arg # None =>
            /\ Len(Evs) = 2
            /\ Evs[1].e = "session_quit" /\ Evs[1].a = last.arg
            /\ last.exc = Evs[1].x)
      /\ (last.arg = None => Len(Evs) = 1 /\ last.exc = "none")
      /\ ~leaseHeld

\* A close() whose base close raised: checkin() ran and the error came out.
C3_witness ==
    /\ last.op = "WharfFactory.close"
    /\ last.arg # None
    /\ last.exc = "WebDriverException"
    /\ Evs[1].x = "WebDriverException"
    /\ Evs[2].e = "checkin"

\* C4 (as claimed): a WharfFactory.create(url_key) during which no
\* collaborator fails returns a handle and leaves the lease held.
C4_lease_held_after_create ==
    (last.op = "WharfFactory.create" /\ last.arg = 1 /\ Healthy) =>
      /\ last.exc = "none"
      /\ last.ret # None
      /\ leaseHeld

\* The close statement of quit() raised: the lookup of self.factory, or the
\* factory's close.
CloseRaised ==
    \E i \in Idx : Evs[i].e \in {"getattr_factory", "session_quit"} /\ Evs[i].x # "none"

\* C5: when quit() is called on an Open manager and its close statement
\* raises, quit() raises nothing and the manager is Closed (browser None).
C5_quit_swallows_close_error ==
    (last.op = "quit" /\ last.pre # None /\ CloseRaised) =>
      /\ last.exc = "none"
      /\ browser = None

\* A quit() on an Open manager that ran a callback, had its close statement
\* raise, logged it and returned.
C5_witness ==
    /\ last.op = "quit"
    /\ last.pre # None
    /\ \E i \in Idx : Evs[i].e = "callback"
    /\ CloseRaised
    /\ \E i \in Idx : Evs[i].e = "log_shutdown_error"
    /\ last.exc = "none"
    /\ browser = None

\* The callbacks quit() called, in call order.
CallbacksCalled == SelectSeq(Evs, LAMBDA ev : ev.e = "callback")

\* C6 (as claimed): quit() on an Open manager calls every attached callback,
\* each once, the last attached first: the calls are n, n-1, .., 1 for the n
\* attached callbacks, and none is left on the handle's list.
C6_reverse_order_each_once ==
    (last.op = "quit" /\ last.pre # None) =>
      /\ cleanups[last.pre] = <<>>
      /\ \A i \in 1..Len(CallbacksCalled) :
           CallbacksCalled[i].a = Len(CallbacksCalled) - i + 1

\* The probe of the last ensure_open() classified the session alive.
ProbeAlive(l) ==
    /\ l.op = "ensure_open"
    /\ l.pre # None
    /\ l.ev[1].e = "probe"
    /\ l.ev[1].x \in {"none", "UnexpectedAlertPresentException"}

\* C7: ensure_open() on an Open manager whose probe is classified alive
\* returns the owned handle and changes nothing: its only call is the probe.
C7_alive_returns_same_handle ==
    [][ProbeAlive(last') =>
          /\ last'.ret = browser
          /\ last'.exc = "none"
          /\ last'.ev = <<Ev("probe", browser, last'.ev[1].x)>>
          /\ UNCHANGED <<browser, cleanups, made, returned, quitCalls, leaseHeld,
                         checkoutOk, checkinCalls>>]_vars

\* An ensure_open() whose probe raised "unexpected alert present" and that
\* returned the handle the manager holds.
C7_witness ==
    /\ ProbeAlive(last)
    /\ last.ev[1].x = "UnexpectedAlertPresentException"
    /\ last.ret = last.pre
    /\ browser = last.pre
    /\ cleanups[browser] # <<>>

\* The last call replaced a handle: start() on an Open manager, or
\* ensure_open() on an Open manager whose probe raised a non-alert error.
Replacing ==
    /\ last.pre # None
    /\ \/ last.op = "start"
       \/ last.op = "ensure_open" /\ ~ProbeAlive(last)

\* C8 (as claimed): replacing a handle, with no collaborator failing after
\* the probe, closes the old session through the factory and yields a new
\* handle that the manager owns, without raising.
C8_replace_closes_then_creates ==
    (Replacing /\ \A i \in Idx : (Evs[i].e \in CollaboratorCalls /\ Evs[i].e # "probe")
                                    => Evs[i].x = "none") =>
      /\ \E i \in Idx : Evs[i].e = "session_quit" /\ Evs[i].a = last.pre
      /\ \A i \in Idx, j \in Idx :
           (Evs[i].e = "construct" /\ Evs[j].e = "session_quit") => j < i
      /\ last.exc = "none"
      /\ last.ret # None /\ last.ret # last.pre
      /\ browser = last.ret

\* C9 (as claimed): open_fresh() on a Closed manager, with no collaborator
\* failing, returns the handle the factory created and the manager owns it.
C9_open_fresh_returns_created ==
    (last.op = "open_fresh" /\ last.pre = None /\ Healthy) =>
      /\ last.exc = "none"
      /\ last.ret # None
      /\ \E i \in Idx : Evs[i].e = "construct" /\ Evs[i].a = last.ret
      /\ browser = last.ret

\* C10: open_fresh() on a manager that holds a handle raises AssertionError,
\* calls nothing and keeps the handle; add_cleanup() on a Closed manager
\* raises AssertionError and attaches no callback.
C10_preconditions_enforced ==
    [][/\ (last'.op = "open_fresh" /\ browser # None) =>
             /\ last'.exc = "AssertionError"
             /\ last'.ev = <<>>
             /\ UNCHANGED <<browser, cleanups, made>>
       /\ (last'.op = "add_cleanup" /\ browser = None) =>
             /\ last'.exc = "AssertionError"
             /\ UNCHANGED <<browser, cleanups>>]_vars

\* An open_fresh() refused on a manager that holds a handle.
C10_witness ==
    /\ last.op = "open_fresh"
    /\ last.pre # None
    /\ last.exc = "AssertionError"
    /\ browser = last.pre

\* C11 (as claimed): a WharfFactory.create(url_key) whose first checkout()
\* succeeds while the remote endpoint refuses the client's connection makes
\* a second attempt after the checkin() of the first (two checkout() calls,
\* two failed attempts) before an error reaches the caller.
C11_refused_attempt_is_retried ==
    ( /\ last.op = "WharfFactory.create" /\ last.arg = 1
      /\ Evs[1].e = "checkout" /\ Evs[1].x = "none"
      /\ last.inp[1] = "URLError111" ) =>
      /\ Count(Evs, "checkout") = WHARF_OUTER_RETRIES
      /\ Count(Evs, "raise") = WHARF_OUTER_RETRIES
      /\ \E i \in Idx, j \in Idx :
            i < j /\ Evs[i].e = "checkin" /\ Evs[j].e = "checkout"
      /\ last.exc # "none"

\* The inputs of the last tries call.
TriesArgs == [max_attempts |-> last.arg, retryable |-> last.inp.retryable,
              excs |-> last.inp.excs]

\* The invocations the last tries call made are the first n, in order.
Invoked(n) == /\ Len(Evs) = n
              /\ \A i \in 1..n : Evs[i] = Ev("invoke", i, TriesArgs.excs[i])

\* C12: tries(max_attempts, retryable, operation): when the first N
\* invocations (N <= max_attempts - 1) raise retryable errors and the next
\* one succeeds, tries returns that invocation's result after exactly N + 1
\* invocations; when all max_attempts invocations raise retryable errors,
\* tries raises the last one's error after exactly max_attempts invocations.
C12_tries_retries_up_to_max ==
    last.op = "tries" =>
      LET a == TriesArgs
      IN  /\ \A N \in 0..(a.max_attempts - 1) :
                ( /\ \A i \in 1..N : IsInstance(a.excs[i], a.retryable)
                  /\ a.excs[N + 1] = "none" )
                => /\ Invoked(N + 1)
                   /\ last.exc = "none"
                   /\ last.ret = N + 1
          /\ (\A i \in 1..a.max_attempts : IsInstance(a.excs[i], a.retryable))
                => /\ Invoked(a.max_attempts)
                   /\ last.exc = a.excs[a.max_attempts]
                   /\ last.ret = None

\* A tries call that succeeded on its last permitted attempt after two
\* retryable errors of different classes.
C12_witness ==
    /\ last.op = "tries"
    /\ last.arg = 3
    /\ last.inp.retryable = BROWSER_ERRORS
    /\ last.inp.excs = <<"URLErrorOther", "WebDriverException", "none">>
    /\ Len(Evs) = 3
    /\ last.ret = 3

\* C13: in tries, an error that is not retryable leaves tries from the
\* invocation that raised it: that invocation is the last one, even when
\* attempts remain.
C13_non_retryable_propagates ==
    last.op = "tries" =>
      LET a == TriesArgs
      IN  \A n \in 1..a.max_attempts :
            ( /\ \A i \in 1..(n - 1) : IsInstance(a.excs[i], a.retryable)
              /\ a.excs[n] # "none"
              /\ ~IsInstance(a.excs[n], a.retryable) )
            => /\ Invoked(n)
               /\ last.exc = a.excs[n]

\* A tries call that retried once and then let a non-retryable error out
\* with an attempt to spare.
C13_witness ==
    /\ last.op = "tries"
    /\ last.arg = 3
    /\ last.inp.retryable = {"WebDriverException"}
    /\ last.inp.excs[1] = "WebDriverException"
    /\ last.inp.excs[2] = "URLErrorOther"
    /\ Len(Evs) = 2
    /\ last.exc = "URLErrorOther"

\* The constructor invocations of the last call, in order.
Constructs == SelectSeq(Evs, LAMBDA ev : ev.e = "construct")

\* C14 (as claimed): when the client constructor raises a connection error
\* during BrowserFactory.create(), the constructor is not invoked again and
\* create() raises RuntimeError for a refused connection and the
\* connection error itself, unchanged, for any other.
C14_connection_error_not_retried ==
    last.op = "BrowserFactory.create" =>
      \A i \in Idx :
        (Evs[i].e = "construct" /\ Evs[i].x \in URLErrors) =>
          /\ i = Len(Evs)
          /\ last.exc = IF Evs[i].x = "URLError111" THEN "RuntimeError" ELSE Evs[i].x

\* C15: BrowserFactory.create() invokes the client constructor at most
\* twice; after a WebDriverException on the first invocation it invokes it
\* again; a success on the second invocation yields that session as the
\* handle (when maximize_window() succeeds); after two WebDriverExceptions
\* create() raises WebDriverException.
C15_client_error_retried_twice ==
    last.op = "BrowserFactory.create" =>
      /\ Len(Constructs) <= BASE_CREATE_TRIES
      /\ (Len(Constructs) >= 1 /\ Constructs[1].x = "WebDriverException")
            => Len(Constructs) = BASE_CREATE_TRIES
      /\ ( /\ Len(Constructs) = BASE_CREATE_TRIES
           /\ Constructs[BASE_CREATE_TRIES].x = "none"
           /\ Evs[Len(Evs)] = Ev("maximize", Constructs[BASE_CREATE_TRIES].a, "none") )
            => /\ last.exc = "none"
               /\ last.ret = Constructs[BASE_CREATE_TRIES].a
               /\ last.ret \in returned
      /\ ( /\ Len(Constructs) = BASE_CREATE_TRIES
           /\ Constructs[BASE_CREATE_TRIES].x = "WebDriverException" )
            => /\ last.exc = "WebDriverException"
               /\ last.ret = None
               /\ Evs = Constructs

\* A create() that got its session from the second constructor invocation.
C15_witness ==
    /\ last.op = "BrowserFactory.create"
    /\ Len(Constructs) = 2
    /\ Constructs[1].x = "WebDriverException"
    /\ Constructs[2].x = "none"
    /\ last.exc = "none"
    /\ last.ret = Constructs[2].a

\* Something failed during the teardown of the last call.
TeardownFailed ==
    \E i \in Idx : /\ Evs[i].e \in {"callback", "getattr_factory", "session_quit"}
                   /\ Evs[i].x # "none"

\* C16 (as claimed): whatever fails during quit() on an Open manager, a
\* cleanup callback or the close statement, quit() raises nothing and the
\* manager is Closed.
C16_teardown_failure_swallowed ==
    (last.op = "quit" /\ last.pre # None /\ TeardownFailed) =>
      /\ last.exc = "none"
      /\ browser = None

\* The last call got past its teardown to the statement
\* self.browser = self.factory.create() and raised there.
CreationRaised ==
    /\ last.op \in {"open_fresh", "start", "ensure_open"}
    /\ last.exc \notin {"none", "AssertionError"}
    /\ \A i \in Idx : Evs[i].e = "callback" => Evs[i].x = "none"

\* C17 (as claimed): an error that open_fresh(), start() or ensure_open()
\* raises from its creation statement is the error Factory.create() raised
\* (the failing call is the client constructor or maximize_window()), and
\* the manager is Closed.
C17_creation_error_as_raised ==
    CreationRaised =>
      /\ Evs[Len(Evs)].e \in {"construct", "maximize"}
      /\ Evs[Len(Evs)].x # "none"
      /\ browser = None

\* C18 (as claimed): every session the client constructor built during a
\* create() is the handle create() returned, or had its quit() called
\* before create() raised.
C18_no_session_left_behind ==
    last.op \in {"BrowserFactory.create", "WharfFactory.create"} =>
      \A i \in Idx :
        (Evs[i].e = "construct" /\ Evs[i].x = "none") =>
          \/ last.ret = Evs[i].a
          \/ \E j \in Idx : j > i /\ Evs[j].e = "session_quit" /\ Evs[j].a = Evs[i].a

\* C19: one WharfFactory.create() call returns or raises after at most 2
\* checkout() calls and at most 4 client constructor invocations.
C19_bounded_attempts ==
    last.op = "WharfFactory.create" =>
      /\ last.exc # "none" \/ last.ret # None
      /\ Count(Evs, "checkout") <= WHARF_OUTER_RETRIES
      /\ Count(Evs, "construct") <= WHARF_OUTER_RETRIES * BASE_CREATE_TRIES

\* A create() that used up both attempts, each with a retryable failure.
C19_witness ==
    /\ last.op = "WharfFactory.create"
    /\ Count(Evs, "checkout") = 2
    /\ Count(Evs, "raise") = 2
    /\ IsInstance(last.exc, BROWSER_ERRORS)

ManagerOps == {"ensure_open", "start", "open_fresh", "add_cleanup", "quit"}

\* The callbacks a call with record l called, in call order.
CallbacksOf(l) == SelectSeq(l.ev, LAMBDA ev : ev.e = "callback")

\* C20: in every call on the manager, each session has its quit() called at
\* most once, and only the owned one (none when the manager is Closed); the
\* callbacks called are the ones on the owned handle's list, taken from its
\* end, each removed from the list by the call that calls it, and the
\* lists of the other handles are untouched.
C20_dispose_and_callbacks_once ==
    [][last'.op \in ManagerOps =>
         LET cbs == CallbacksOf(last')
             own == IF browser = None THEN <<>> ELSE cleanups[browser]
         IN  /\ \A h \in Handles :
                  /\ quitCalls'[h] <= quitCalls[h] + 1
                  /\ quitCalls'[h] # quitCalls[h] => h = browser
             /\ Len(cbs) <= Len(own)
             /\ \A i \in 1..Len(cbs) : cbs[i].a = own[Len(own) - i + 1]
             /\ \A h \in Handles :
                  cleanups'[h] = IF h # browser THEN cleanups[h]
                                 ELSE IF last'.op = "add_cleanup"
                                      THEN Append(own, last'.arg)
                                 ELSE SubSeq(own, 1, Len(own) - Len(cbs))]_vars

\* A quit() that called the two callbacks of its handle and left none, after
\* which the manager is Closed.
C20_witness ==
    /\ last.op = "quit"
    /\ last.pre # None
    /\ Len(CallbacksOf(last)) = 2
    /\ cleanups[last.pre] = <<>>
    /\ browser = None

====
